---------------------------- MODULE Spec2Model ----------------------------
(***************************************************************************)
(* Feistel-based block cipher of src/main.py: LFSR key schedule, keyed     *)
(* nibble S-box, fixed P-box, Feistel rounds, PKCS#7-like padding and the  *)
(* sequential message codec.                                               *)
(*                                                                         *)
(* Representation.  TLC integers are 32-bit signed, so a Python value that *)
(* ranges over 0..2^32-1 (a block, an LFSR state, the key) is held as the  *)
(* record [hi |-> bits 31..16, lo |-> bits 15..0] of two 16-bit halves.    *)
(* Every 32-bit operation of the source is carried out on the two halves   *)
(* with the same bit positions; 16-bit values, nibbles and bytes are plain *)
(* integers.  Byte strings and lists are sequences.                        *)
(***************************************************************************)
EXTENDS Integers, Sequences, FiniteSets, TLC

VARIABLES
    pc,                     \* position of the running routine
    key_32,                 \* main: key_32
    rounds,                 \* main: rounds
    s_box_nibble,           \* module global s_box_nibble (line 49)
    inverse_s_box_nibble,   \* module global inverse_s_box_nibble (line 50)
    original_bytes,         \* main: original_bytes
    em_blocks,              \* encrypt_message: blocks
    encrypted_blocks,       \* encrypt_message: encrypted_blocks
    ciphertext,             \* main: ciphertext
    dm_ciphertext,          \* decrypt_message: parameter ciphertext
    dm_blocks,              \* decrypt_message: blocks
    decrypted_blocks,       \* decrypt_message: decrypted_blocks
    lfsr_state,             \* encrypt_message / decrypt_message: lfsr_state
    decrypted_bytes,        \* main: decrypted_bytes, or the exception raised
    arg,                    \* direct call of one function: its arguments
    ret                     \* direct call of one function: what it returned

vars == <<pc, key_32, rounds, s_box_nibble, inverse_s_box_nibble,
          original_bytes, em_blocks, encrypted_blocks, ciphertext,
          dm_ciphertext, dm_blocks, decrypted_blocks, lfsr_state,
          decrypted_bytes, arg, ret>>

None == "None"

-----------------------------------------------------------------------------
(* Bounds of the model *)

\* rounds is drawn from 1..MaxRounds (the source's default is 4)
MaxRounds == 4
\* plaintexts have 0..MaxLen bytes
MaxLen == 5
\* buffers handed directly to pad_pkcs7 / unpad_pkcs7 have 0..MaxBuf bytes
MaxBuf == 4
\* a free-running LFSR is followed for MaxSteps steps
MaxSteps == 12

-----------------------------------------------------------------------------
(* Python's integer operators on non-negative integers *)

RECURSIVE BitXor(_, _)
\* a ^ b
BitXor(a, b) ==
    IF a = 0 THEN b
    ELSE IF b = 0 THEN a
    ELSE ((a + b) % 2) + 2 * BitXor(a \div 2, b \div 2)

RECURSIVE BitOr(_, _)
\* a | b
BitOr(a, b) ==
    IF a = 0 THEN b
    ELSE IF b = 0 THEN a
    ELSE (IF a % 2 = 1 \/ b % 2 = 1 THEN 1 ELSE 0) + 2 * BitOr(a \div 2, b \div 2)

\* (x >> n) & 1
BitAt(x, n) == (x \div (2 ^ n)) % 2

Word32 == [hi : 0..65535, lo : 0..65535]
W32(h, l) == [hi |-> h, lo |-> l]
Zero32 == W32(0, 0)

-----------------------------------------------------------------------------
(* LFSR key scheduling *)

\* lfsr_step without the tap at bit 0
lfsr_step_no_tap0(state) ==
    LET b1 == BitAt(state.lo, 1)
        b21 == BitAt(state.hi, 5)
        b31 == BitAt(state.hi, 15)
        new_bit == BitXor(BitXor(b1, b21), b31)
        lo1 == (state.lo \div 2) + (state.hi % 2) * 32768
        hi1 == (state.hi \div 2) % 32768
        st == W32(IF new_bit = 1 THEN BitOr(hi1, 32768) ELSE hi1, lo1)
    IN  [state |-> st, out |-> st]

\* lfsr_step(state) -> (state, state).  Bits 0 and 1 lie in the low half,
\* bit 21 is bit 5 and bit 31 is bit 15 of the high half.  state >> 1 moves
\* bit 16 (hi's bit 0) into bit 15; & 0x7FFFFFFF clears bit 31.
lfsr_step(state) ==
    LET b0 == BitAt(state.lo, 0)
        b1 == BitAt(state.lo, 1)
        b21 == BitAt(state.hi, 5)
        b31 == BitAt(state.hi, 15)
        new_bit == BitXor(BitXor(BitXor(b0, b1), b21), b31)
        lo1 == (state.lo \div 2) + (state.hi % 2) * 32768
        hi1 == (state.hi \div 2) % 32768
        st == W32(IF new_bit = 1 THEN BitOr(hi1, 32768) ELSE hi1, lo1)
    IN  [state |-> st, out |-> st]

-----------------------------------------------------------------------------
(* Key-dependent S-box generation *)

\* The keys the model draws from: 0x00000000, 0x00000001, 0xDEADBEEF,
\* 0x80200003
Keys == { W32(0, 0), W32(0, 1), W32(57005, 48879), W32(32800, 3) }

Tab(s) == [i \in 0..15 |-> s[i + 1]]

\* rng = random.Random(key); box = list(range(16)); rng.shuffle(box):
\* the list CPython's Mersenne Twister leaves in box for each key of Keys.
rng_shuffle(key) ==
    CASE key = W32(0, 0) ->
           Tab(<<10, 14, 5, 1, 9, 2, 3, 11, 13, 7, 8, 4, 0, 6, 15, 12>>)
      [] key = W32(0, 1) ->
           Tab(<<2, 10, 0, 14, 6, 5, 3, 8, 7, 11, 15, 1, 12, 13, 9, 4>>)
      [] key = W32(57005, 48879) ->
           Tab(<<15, 1, 8, 4, 10, 2, 3, 5, 13, 11, 12, 14, 9, 7, 6, 0>>)
      [] key = W32(32800, 3) ->
           Tab(<<12, 1, 11, 5, 4, 10, 6, 13, 15, 14, 2, 0, 3, 8, 7, 9>>)

RECURSIVE invert_box(_, _)
\* inv_box = [0] * 16; for i, val in enumerate(box): inv_box[val] = i
\* (the list after the first n iterations)
invert_box(box, n) ==
    IF n = 0 THEN [v \in 0..15 |-> 0]
    ELSE [invert_box(box, n - 1) EXCEPT ![box[n - 1]] = n - 1]

generate_s_box(key) ==
    LET box == rng_shuffle(key)
    IN  [box |-> box, inv_box |-> invert_box(box, 16)]

RECURSIVE s_box_loop(_, _)
s_box_loop(x, n) ==
    IF n = 0 THEN 0
    ELSE LET i == n - 1
             nibble == (x \div (2 ^ (i * 4))) % 16
             sub == s_box_nibble[nibble]
         IN  BitOr(s_box_loop(x, n - 1), sub * (2 ^ (i * 4)))

\* s_box(x): substitute the four nibbles of x through the global table
s_box(x) == s_box_loop(x, 4)

RECURSIVE inverse_s_box_loop(_, _)
inverse_s_box_loop(x, n) ==
    IF n = 0 THEN 0
    ELSE LET i == n - 1
             nibble == (x \div (2 ^ (i * 4))) % 16
             sub == inverse_s_box_nibble[nibble]
         IN  BitOr(inverse_s_box_loop(x, n - 1), sub * (2 ^ (i * 4)))

inverse_s_box(x) == inverse_s_box_loop(x, 4)

-----------------------------------------------------------------------------
(* P-box and its inverse *)

RECURSIVE p_box_loop(_, _)
p_box_loop(x, n) ==
    IF n = 0 THEN 0
    ELSE LET i == n - 1
             bit == BitAt(x, i)
             new_pos == (i * 3) % 16
         IN  BitOr(p_box_loop(x, n - 1), bit * (2 ^ new_pos))

p_box(x) == p_box_loop(x, 16)

\* the table with the entries of 1 and 3 exchanged
mapping_swapped ==
    Tab(<<0, 1, 6, 11, 12, 7, 2, 13, 8, 3, 14, 9, 4, 15, 10, 5>>)

\* inverse_p_box: mapping
mapping ==
    Tab(<<0, 11, 6, 1, 12, 7, 2, 13, 8, 3, 14, 9, 4, 15, 10, 5>>)

RECURSIVE inverse_p_box_loop(_, _)
inverse_p_box_loop(x, n) ==
    IF n = 0 THEN 0
    ELSE LET i == n - 1
             bit == BitAt(x, i)
             original_pos == mapping[i]
         IN  BitOr(inverse_p_box_loop(x, n - 1), bit * (2 ^ original_pos))

inverse_p_box(x) == inverse_p_box_loop(x, 16)

-----------------------------------------------------------------------------
(* Feistel rounds *)

\* round_function(x, subkey) = p_box(s_box(x)) ^ (subkey & 0xFFFF)
round_function(x, subkey) == BitXor(p_box(s_box(x)), subkey % 65536)

RECURSIVE encrypt_subkeys(_, _)
\* encrypt_block: current_state and subkeys after n iterations of the
\* key-schedule loop
encrypt_subkeys(lfsr_state0, n) ==
    IF n = 0 THEN [current_state |-> lfsr_state0, subkeys |-> <<>>]
    ELSE LET prev == encrypt_subkeys(lfsr_state0, n - 1)
             st == lfsr_step(prev.current_state)
         IN  [current_state |-> st.state,
              subkeys |-> Append(prev.subkeys, st.out.lo)]

\* one encryption round that mixes F into R instead of L
encrypt_round_mix_R(LR, subkey) ==
    LET F == round_function(LR.R, subkey)
    IN  [L |-> LR.R, R |-> BitXor(LR.R, F)]

\* encrypt_block: one iteration of the round loop on (L, R)
encrypt_round(LR, subkey) ==
    LET F == round_function(LR.R, subkey)
        new_L == LR.R
        new_R == BitXor(LR.L, F)
    IN  [L |-> new_L, R |-> new_R]

RECURSIVE encrypt_rounds(_, _, _)
\* (L, R) after the first n iterations, subkeys[0] first
encrypt_rounds(LR, subkeys, n) ==
    IF n = 0 THEN LR
    ELSE encrypt_round(encrypt_rounds(LR, subkeys, n - 1), subkeys[n])

\* encrypt_block that returns the LFSR state it was given
encrypt_block_stale_state(block, lfsr_state0, nrounds) ==
    LET ks == encrypt_subkeys(lfsr_state0, nrounds)
        LR == encrypt_rounds([L |-> block.hi % 65536, R |-> block.lo % 65536],
                             ks.subkeys, nrounds)
    IN  [block |-> W32(LR.L % 65536, LR.R % 65536), state |-> lfsr_state0]

\* encrypt_block(block, lfsr_state, rounds) -> (encrypted_block, current_state)
encrypt_block(block, lfsr_state0, nrounds) ==
    LET ks == encrypt_subkeys(lfsr_state0, nrounds)
        LR == encrypt_rounds([L |-> block.hi % 65536, R |-> block.lo % 65536],
                             ks.subkeys, nrounds)
    IN  [block |-> W32(LR.L % 65536, LR.R % 65536), state |-> ks.current_state]

RECURSIVE decrypt_subkeys(_, _)
\* decrypt_block: current_state and subkeys after n iterations of the
\* key-schedule loop
decrypt_subkeys(lfsr_state0, n) ==
    IF n = 0 THEN [current_state |-> lfsr_state0, subkeys |-> <<>>]
    ELSE LET prev == decrypt_subkeys(lfsr_state0, n - 1)
             st == lfsr_step(prev.current_state)
         IN  [current_state |-> st.state,
              subkeys |-> Append(prev.subkeys, st.out.lo)]

\* one decryption round that feeds R instead of L to the round function
decrypt_round_F_of_R(LR, subkey) ==
    LET F == round_function(LR.R, subkey)
    IN  [L |-> BitXor(LR.R, F), R |-> LR.L]

\* decrypt_block: one iteration of the round loop on (L, R)
decrypt_round(LR, subkey) ==
    LET F == round_function(LR.L, subkey)
        new_R == LR.L
        new_L == BitXor(LR.R, F)
    IN  [L |-> new_L, R |-> new_R]

RECURSIVE decrypt_rounds(_, _, _)
\* (L, R) after the first n iterations of `for subkey in reversed(subkeys)`
decrypt_rounds(LR, subkeys, n) ==
    IF n = 0 THEN LR
    ELSE decrypt_round(decrypt_rounds(LR, subkeys, n - 1),
                       subkeys[Len(subkeys) - n + 1])

RECURSIVE decrypt_rounds_forward(_, _, _)
\* the round loop without reversed(): subkeys[0] first
decrypt_rounds_forward(LR, subkeys, n) ==
    IF n = 0 THEN LR
    ELSE decrypt_round(decrypt_rounds_forward(LR, subkeys, n - 1), subkeys[n])

\* decrypt_block that applies the subkeys in generation order
decrypt_block_forward(block, lfsr_state0, nrounds) ==
    LET ks == decrypt_subkeys(lfsr_state0, nrounds)
        LR == decrypt_rounds_forward(
                  [L |-> block.hi % 65536, R |-> block.lo % 65536],
                  ks.subkeys, nrounds)
    IN  [block |-> W32(LR.L % 65536, LR.R % 65536), state |-> ks.current_state]

\* decrypt_block whose returned LFSR state is mixed with the block's low half
decrypt_block_feedback(block, lfsr_state0, nrounds) ==
    LET ks == decrypt_subkeys(lfsr_state0, nrounds)
        LR == decrypt_rounds([L |-> block.hi % 65536, R |-> block.lo % 65536],
                             ks.subkeys, nrounds)
    IN  [block |-> W32(LR.L % 65536, LR.R % 65536),
         state |-> W32(ks.current_state.hi,
                       BitXor(ks.current_state.lo, block.lo))]

\* decrypt_block(block, lfsr_state, rounds) -> (decrypted_block, current_state)
decrypt_block(block, lfsr_state0, nrounds) ==
    LET ks == decrypt_subkeys(lfsr_state0, nrounds)
        LR == decrypt_rounds([L |-> block.hi % 65536, R |-> block.lo % 65536],
                             ks.subkeys, nrounds)
    IN  [block |-> W32(LR.L % 65536, LR.R % 65536), state |-> ks.current_state]

-----------------------------------------------------------------------------
(* Padding and conversion *)

BLOCK_SIZE == 4

Repeat(v, n) == [k \in 1..n |-> v]

\* Python slices data[-n:] and data[:-n] for n >= 1: a start before the
\* beginning of the sequence is clamped to the beginning
LastN(data, n) ==
    SubSeq(data, (IF Len(data) > n THEN Len(data) - n ELSE 0) + 1, Len(data))
DropLastN(data, n) ==
    SubSeq(data, 1, IF Len(data) > n THEN Len(data) - n ELSE 0)

\* pad_pkcs7 with the remainder itself taken as the padding length
pad_pkcs7_mod(data, block_size) ==
    LET pad_len0 == (block_size - (Len(data) % block_size)) % block_size
    IN  data \o Repeat(pad_len0, pad_len0)

\* pad_pkcs7(data, block_size)
pad_pkcs7(data, block_size) ==
    LET pad_len0 == block_size - (Len(data) % block_size)
        pad_len == IF pad_len0 = 0 THEN block_size ELSE pad_len0
    IN  data \o Repeat(pad_len, pad_len)

Returned(v) == [raised |-> "", value |-> v]
Raised(e) == [raised |-> e, value |-> <<>>]

\* unpad_pkcs7(data, block_size): the bytes returned, or the exception
\* raised (data[-1] of an empty bytes object raises IndexError)
unpad_pkcs7(data, block_size) ==
    IF Len(data) = 0 THEN Raised("IndexError")
    ELSE LET pad_len == data[Len(data)]
             tail == LastN(data, pad_len)
         IN  IF pad_len < 1 \/ pad_len > block_size
             THEN Raised("ValueError")
             ELSE IF \E k \in 1..Len(tail) : tail[k] # pad_len
             THEN Raised("ValueError")
             ELSE Returned(DropLastN(data, pad_len))

\* int.from_bytes(chunk, byteorder='big') for a chunk of 0..4 bytes
from_bytes(chunk) ==
    LET n == Len(chunk)
        B(k) == IF k > n THEN 0 ELSE chunk[n - k + 1]
    IN  W32(B(4) * 256 + B(3), B(2) * 256 + B(1))

\* block.to_bytes(4, byteorder='big')
to_bytes(block) ==
    <<block.hi \div 256, block.hi % 256, block.lo \div 256, block.lo % 256>>

RECURSIVE bytes_to_blocks_loop(_, _)
\* blocks after the first n iterations of `for i in range(0, len(data), 4)`
bytes_to_blocks_loop(data, n) ==
    IF n = 0 THEN <<>>
    ELSE LET i == (n - 1) * 4
             chunk == SubSeq(data, i + 1,
                             IF i + 4 < Len(data) THEN i + 4 ELSE Len(data))
         IN  Append(bytes_to_blocks_loop(data, n - 1), from_bytes(chunk))

\* bytes_to_blocks that leaves out a trailing chunk of fewer than 4 bytes
bytes_to_blocks_whole(data) ==
    bytes_to_blocks_loop(data, Len(data) \div 4)

\* bytes_to_blocks(data): range(0, len(data), 4) has ceil(len(data)/4) items
bytes_to_blocks(data) ==
    bytes_to_blocks_loop(data, (Len(data) + 3) \div 4)

RECURSIVE blocks_to_bytes(_)
blocks_to_bytes(blks) ==
    IF Len(blks) = 0 THEN <<>>
    ELSE blocks_to_bytes(SubSeq(blks, 1, Len(blks) - 1))
             \o to_bytes(blks[Len(blks)])

-----------------------------------------------------------------------------
(* The main routine: key, S-box, encrypt_message, decrypt_message *)

\* byte values the plaintexts are made of: a padding look-alike and 0xA7
PlainBytes == {4, 167}

RECURSIVE SeqsUpTo(_, _)
\* all sequences over S of length 0..n
SeqsUpTo(S, n) ==
    IF n = 0 THEN {<<>>}
    ELSE LET shorter == SeqsUpTo(S, n - 1)
         IN  shorter \cup {Append(q, b) : q \in {r \in shorter : Len(r) = n - 1}, b \in S}

\* bit positions (0 = least significant of the 32) a corrupted block differs in
FlipBits == {0, 15, 16, 31}

\* block number blk (from 1) of the byte string ct with bit b flipped
FlipBlockBit(ct, blk, b) ==
    LET pos == (blk - 1) * 4 + (4 - (b \div 8))
    IN  [ct EXCEPT ![pos] = BitXor(ct[pos], 2 ^ (b % 8))]

\* what a caller may hand to decrypt_message after encrypt_message returned
\* ct: ct itself (as main does), ct with one bit of one block flipped, or ct
\* cut short by 1..3 bytes
CiphertextInputs(ct) ==
    {ct}
    \cup {FlipBlockBit(ct, blk, b) : blk \in 1..(Len(ct) \div 4), b \in FlipBits}
    \cup {SubSeq(ct, 1, Len(ct) - k) : k \in 1..3}

Init ==
    /\ pc = "import"
    /\ key_32 = Zero32
    /\ rounds = 0
    /\ s_box_nibble = None
    /\ inverse_s_box_nibble = None
    /\ original_bytes = <<>>
    /\ em_blocks = <<>>
    /\ encrypted_blocks = <<>>
    /\ ciphertext = <<>>
    /\ dm_ciphertext = <<>>
    /\ dm_blocks = <<>>
    /\ decrypted_blocks = <<>>
    /\ lfsr_state = Zero32
    /\ decrypted_bytes = Returned(<<>>)
    /\ arg = None
    /\ ret = None

\* __main__: the message, the number of rounds and the key are chosen and the
\* S-box globals are generated from the key
Main ==
    /\ pc = "import"
    /\ \E k \in Keys, r \in 1..MaxRounds, m \in SeqsUpTo(PlainBytes, MaxLen) :
          /\ key_32' = k
          /\ rounds' = r
          /\ original_bytes' = m
          /\ s_box_nibble' = generate_s_box(k).box
          /\ inverse_s_box_nibble' = generate_s_box(k).inv_box
    /\ pc' = "encrypt_message"
    /\ UNCHANGED <<em_blocks, encrypted_blocks, ciphertext, dm_ciphertext,
                   dm_blocks, decrypted_blocks, lfsr_state, decrypted_bytes,
                   arg, ret>>

\* encrypt_message up to its loop: pad, split, lfsr_state = key_32
EncryptMessageEnter ==
    /\ pc = "encrypt_message"
    /\ em_blocks' = bytes_to_blocks(pad_pkcs7(original_bytes, BLOCK_SIZE))
    /\ lfsr_state' = key_32
    /\ encrypted_blocks' = <<>>
    /\ pc' = "encrypt_loop"
    /\ UNCHANGED <<key_32, rounds, s_box_nibble, inverse_s_box_nibble,
                   original_bytes, ciphertext, dm_ciphertext, dm_blocks,
                   decrypted_blocks, decrypted_bytes, arg, ret>>

\* encrypt_message: one iteration of `for idx, blk in enumerate(blocks)`
EncryptMessageLoop ==
    /\ pc = "encrypt_loop"
    /\ Len(encrypted_blocks) < Len(em_blocks)
    /\ LET blk == em_blocks[Len(encrypted_blocks) + 1]
           r == encrypt_block(blk, lfsr_state, rounds)
       IN  /\ encrypted_blocks' = Append(encrypted_blocks, r.block)
           /\ lfsr_state' = r.state
    /\ UNCHANGED <<pc, key_32, rounds, s_box_nibble, inverse_s_box_nibble,
                   original_bytes, em_blocks, ciphertext, dm_ciphertext,
                   dm_blocks, decrypted_blocks, decrypted_bytes, arg, ret>>

\* encrypt_message returns blocks_to_bytes(encrypted_blocks) to main
EncryptMessageReturn ==
    /\ pc = "encrypt_loop"
    /\ Len(encrypted_blocks) = Len(em_blocks)
    /\ ciphertext' = blocks_to_bytes(encrypted_blocks)
    /\ pc' = "decrypt_message"
    /\ UNCHANGED <<key_32, rounds, s_box_nibble, inverse_s_box_nibble,
                   original_bytes, em_blocks, encrypted_blocks, dm_ciphertext,
                   dm_blocks, decrypted_blocks, lfsr_state, decrypted_bytes,
                   arg, ret>>

\* decrypt_message up to its loop: split, lfsr_state = key_32
DecryptMessageEnter ==
    /\ pc = "decrypt_message"
    /\ \E ct \in CiphertextInputs(ciphertext) :
          /\ dm_ciphertext' = ct
          /\ dm_blocks' = bytes_to_blocks(ct)
    /\ lfsr_state' = key_32
    /\ decrypted_blocks' = <<>>
    /\ pc' = "decrypt_loop"
    /\ UNCHANGED <<key_32, rounds, s_box_nibble, inverse_s_box_nibble,
                   original_bytes, em_blocks, encrypted_blocks, ciphertext,
                   decrypted_bytes, arg, ret>>

\* decrypt_message: one iteration of `for idx, blk in enumerate(blocks)`
DecryptMessageLoop ==
    /\ pc = "decrypt_loop"
    /\ Len(decrypted_blocks) < Len(dm_blocks)
    /\ LET blk == dm_blocks[Len(decrypted_blocks) + 1]
           r == decrypt_block(blk, lfsr_state, rounds)
       IN  /\ decrypted_blocks' = Append(decrypted_blocks, r.block)
           /\ lfsr_state' = r.state
    /\ UNCHANGED <<pc, key_32, rounds, s_box_nibble, inverse_s_box_nibble,
                   original_bytes, em_blocks, encrypted_blocks, ciphertext,
                   dm_ciphertext, dm_blocks, decrypted_bytes, arg, ret>>

\* decrypt_message returns unpad_pkcs7(blocks_to_bytes(decrypted_blocks), 4),
\* or the exception unpad_pkcs7 raises passes through it
DecryptMessageReturn ==
    /\ pc = "decrypt_loop"
    /\ Len(decrypted_blocks) = Len(dm_blocks)
    /\ decrypted_bytes' = unpad_pkcs7(blocks_to_bytes(decrypted_blocks), BLOCK_SIZE)
    /\ pc' = "done"
    /\ UNCHANGED <<key_32, rounds, s_box_nibble, inverse_s_box_nibble,
                   original_bytes, em_blocks, encrypted_blocks, ciphertext,
                   dm_ciphertext, dm_blocks, decrypted_blocks, lfsr_state,
                   arg, ret>>

Next ==
    \/ Main
    \/ EncryptMessageEnter
    \/ EncryptMessageLoop
    \/ EncryptMessageReturn
    \/ DecryptMessageEnter
    \/ DecryptMessageLoop
    \/ DecryptMessageReturn

Spec == Init /\ [][Next]_vars

-----------------------------------------------------------------------------
(* encrypt_block and decrypt_block called directly on one block *)

\* tables generate_s_box never produces: constant, two-to-one, squares mod 16
ArbitraryTables ==
    { [i \in 0..15 |-> 0],
      [i \in 0..15 |-> 15],
      [i \in 0..15 |-> i \div 2],
      [i \in 0..15 |-> (i * i) % 16] }

GeneratedTables == { generate_s_box(k).box : k \in Keys }

IsPermutation(t) == \A v \in 0..15 : \E i \in 0..15 : t[i] = v

HalfInputs == {0, 1, 42405, 65535}
BlockInputs == { W32(h, l) : h \in HalfInputs, l \in HalfInputs }
SeedInputs == Keys \cup { W32(65535, 65535) }

NoBlockResult == [block |-> Zero32, state |-> Zero32]

InitBlock ==
    /\ pc = "block_call"
    /\ arg \in [block : BlockInputs, lfsr_state : SeedInputs, rounds : 1..MaxRounds]
    /\ s_box_nibble \in GeneratedTables \cup ArbitraryTables
    /\ inverse_s_box_nibble = None
    /\ ret = [enc |-> NoBlockResult, dec |-> NoBlockResult]
    /\ key_32 = Zero32
    /\ rounds = 0
    /\ original_bytes = <<>>
    /\ em_blocks = <<>>
    /\ encrypted_blocks = <<>>
    /\ ciphertext = <<>>
    /\ dm_ciphertext = <<>>
    /\ dm_blocks = <<>>
    /\ decrypted_blocks = <<>>
    /\ lfsr_state = Zero32
    /\ decrypted_bytes = Returned(<<>>)

\* encrypt_block(block, lfsr_state, rounds)
CallEncryptBlock ==
    /\ pc = "block_call"
    /\ ret' = [ret EXCEPT !.enc = encrypt_block(arg.block, arg.lfsr_state, arg.rounds)]
    /\ pc' = "block_encrypted"
    /\ UNCHANGED <<key_32, rounds, s_box_nibble, inverse_s_box_nibble,
                   original_bytes, em_blocks, encrypted_blocks, ciphertext,
                   dm_ciphertext, dm_blocks, decrypted_blocks, lfsr_state,
                   decrypted_bytes, arg>>

\* decrypt_block(the cipher block, lfsr_state, rounds)
CallDecryptBlock ==
    /\ pc = "block_encrypted"
    /\ ret' = [ret EXCEPT !.dec = decrypt_block(ret.enc.block, arg.lfsr_state, arg.rounds)]
    /\ pc' = "block_decrypted"
    /\ UNCHANGED <<key_32, rounds, s_box_nibble, inverse_s_box_nibble,
                   original_bytes, em_blocks, encrypted_blocks, ciphertext,
                   dm_ciphertext, dm_blocks, decrypted_blocks, lfsr_state,
                   decrypted_bytes, arg>>

NextBlock ==
    \/ CallEncryptBlock
    \/ CallDecryptBlock

SpecBlock == InitBlock /\ [][NextBlock]_vars

-----------------------------------------------------------------------------
(* pad_pkcs7 and unpad_pkcs7 called directly on one buffer *)

PadBytes == 0..5

InitPad ==
    /\ pc = "pad_call"
    /\ arg \in [data : SeqsUpTo(PadBytes, MaxBuf), block_size : {BLOCK_SIZE}]
    /\ ret = [padded |-> <<>>, unpadded |-> Returned(<<>>)]
    /\ s_box_nibble = None
    /\ inverse_s_box_nibble = None
    /\ key_32 = Zero32
    /\ rounds = 0
    /\ original_bytes = <<>>
    /\ em_blocks = <<>>
    /\ encrypted_blocks = <<>>
    /\ ciphertext = <<>>
    /\ dm_ciphertext = <<>>
    /\ dm_blocks = <<>>
    /\ decrypted_blocks = <<>>
    /\ lfsr_state = Zero32
    /\ decrypted_bytes = Returned(<<>>)

\* pad_pkcs7(data, block_size)
CallPad ==
    /\ pc = "pad_call"
    /\ ret' = [ret EXCEPT !.padded = pad_pkcs7(arg.data, arg.block_size)]
    /\ pc' = "padded"
    /\ UNCHANGED <<key_32, rounds, s_box_nibble, inverse_s_box_nibble,
                   original_bytes, em_blocks, encrypted_blocks, ciphertext,
                   dm_ciphertext, dm_blocks, decrypted_blocks, lfsr_state,
                   decrypted_bytes, arg>>

\* unpad_pkcs7(pad_pkcs7(data, block_size), block_size)
CallUnpadPadded ==
    /\ pc = "padded"
    /\ ret' = [ret EXCEPT !.unpadded = unpad_pkcs7(ret.padded, arg.block_size)]
    /\ pc' = "pad_unpadded"
    /\ UNCHANGED <<key_32, rounds, s_box_nibble, inverse_s_box_nibble,
                   original_bytes, em_blocks, encrypted_blocks, ciphertext,
                   dm_ciphertext, dm_blocks, decrypted_blocks, lfsr_state,
                   decrypted_bytes, arg>>

\* unpad_pkcs7(data, block_size) on the buffer as given
CallUnpad ==
    /\ pc = "pad_call"
    /\ ret' = [ret EXCEPT !.unpadded = unpad_pkcs7(arg.data, arg.block_size)]
    /\ pc' = "unpadded"
    /\ UNCHANGED <<key_32, rounds, s_box_nibble, inverse_s_box_nibble,
                   original_bytes, em_blocks, encrypted_blocks, ciphertext,
                   dm_ciphertext, dm_blocks, decrypted_blocks, lfsr_state,
                   decrypted_bytes, arg>>

NextPad ==
    \/ CallPad
    \/ CallUnpadPadded
    \/ CallUnpad

SpecPad == InitPad /\ [][NextPad]_vars

-----------------------------------------------------------------------------
(* p_box and inverse_p_box called directly on every 16-bit value *)

InitPBox ==
    /\ pc = "p_box_call"
    /\ arg \in 0..65535
    /\ ret = [p |-> 0, inv |-> 0]
    /\ s_box_nibble = None
    /\ inverse_s_box_nibble = None
    /\ key_32 = Zero32
    /\ rounds = 0
    /\ original_bytes = <<>>
    /\ em_blocks = <<>>
    /\ encrypted_blocks = <<>>
    /\ ciphertext = <<>>
    /\ dm_ciphertext = <<>>
    /\ dm_blocks = <<>>
    /\ decrypted_blocks = <<>>
    /\ lfsr_state = Zero32
    /\ decrypted_bytes = Returned(<<>>)

\* p_box(x)
CallPBox ==
    /\ pc = "p_box_call"
    /\ ret' = [ret EXCEPT !.p = p_box(arg)]
    /\ pc' = "p_box_done"
    /\ UNCHANGED <<key_32, rounds, s_box_nibble, inverse_s_box_nibble,
                   original_bytes, em_blocks, encrypted_blocks, ciphertext,
                   dm_ciphertext, dm_blocks, decrypted_blocks, lfsr_state,
                   decrypted_bytes, arg>>

\* inverse_p_box(p_box(x))
CallInversePBox ==
    /\ pc = "p_box_done"
    /\ ret' = [ret EXCEPT !.inv = inverse_p_box(ret.p)]
    /\ pc' = "p_box_inverted"
    /\ UNCHANGED <<key_32, rounds, s_box_nibble, inverse_s_box_nibble,
                   original_bytes, em_blocks, encrypted_blocks, ciphertext,
                   dm_ciphertext, dm_blocks, decrypted_blocks, lfsr_state,
                   decrypted_bytes, arg>>

NextPBox ==
    \/ CallPBox
    \/ CallInversePBox

SpecPBox == InitPBox /\ [][NextPBox]_vars

-----------------------------------------------------------------------------
(* lfsr_step applied repeatedly to one register *)

\* seeds: every combination of the taps at bits 0, 1, 21 and 31, every
\* low half below 32 (the states whose right shift is 0 among them)
LfsrSeeds ==
    { W32(h, l) : h \in {0, 1, 32, 32768, 32800, 57005, 65535},
                  l \in (0..31) \cup {48879, 65535} }

InitLfsr ==
    /\ pc = "lfsr"
    /\ arg \in LfsrSeeds
    /\ lfsr_state = arg
    /\ ret = [n |-> 0, out |-> arg]
    /\ s_box_nibble = None
    /\ inverse_s_box_nibble = None
    /\ key_32 = Zero32
    /\ rounds = 0
    /\ original_bytes = <<>>
    /\ em_blocks = <<>>
    /\ encrypted_blocks = <<>>
    /\ ciphertext = <<>>
    /\ dm_ciphertext = <<>>
    /\ dm_blocks = <<>>
    /\ decrypted_blocks = <<>>
    /\ decrypted_bytes = Returned(<<>>)

\* state, out_word = lfsr_step(state)
CallLfsrStep ==
    /\ pc = "lfsr"
    /\ ret.n < MaxSteps
    /\ LET r == lfsr_step(lfsr_state)
       IN  /\ lfsr_state' = r.state
           /\ ret' = [n |-> ret.n + 1, out |-> r.out]
    /\ UNCHANGED <<pc, key_32, rounds, s_box_nibble, inverse_s_box_nibble,
                   original_bytes, em_blocks, encrypted_blocks, ciphertext,
                   dm_ciphertext, dm_blocks, decrypted_blocks,
                   decrypted_bytes, arg>>

NextLfsr ==
    \/ CallLfsrStep

SpecLfsr == InitLfsr /\ [][NextLfsr]_vars

-----------------------------------------------------------------------------
(* Properties *)

Aligned(data) == Len(data) % 4 = 0

\* C1: message round trip.  When decrypt_message is given exactly what
\* encrypt_message returned, under the same key, rounds and the S-box pair
\* generated from the key, it returns the original byte sequence (the empty
\* one included) and raises nothing.
MessageRoundTrip ==
    (pc = "done" /\ dm_ciphertext = ciphertext)
        => decrypted_bytes = Returned(original_bytes)

\* C1 witness: a two-block message, more than one round, a ciphertext that
\* is not the padded plaintext, decrypted back
MessageRoundTripWitness ==
    /\ pc = "done"
    /\ dm_ciphertext = ciphertext
    /\ Len(em_blocks) = 2
    /\ rounds > 1
    /\ ciphertext # pad_pkcs7(original_bytes, BLOCK_SIZE)
    /\ decrypted_bytes = Returned(original_bytes)

\* C2: block round trip under a generated S-box.  For any block, any LFSR
\* seed and any rounds >= 1, decrypt_block applied to the cipher block of
\* encrypt_block with the same seed and rounds returns the original block.
BlockRoundTrip ==
    (pc = "block_decrypted" /\ s_box_nibble \in GeneratedTables)
        => ret.dec.block = arg.block

\* C2 witness: the default 4 rounds, a seed that is not zero, a cipher block
\* different from the block, decrypted back
BlockRoundTripWitness ==
    /\ pc = "block_decrypted"
    /\ s_box_nibble \in GeneratedTables
    /\ arg.rounds = 4
    /\ arg.lfsr_state = W32(57005, 48879)
    /\ ret.enc.block # arg.block
    /\ ret.dec.block = arg.block

\* C3 as stated: a ciphertext whose length is not a multiple of 4 makes
\* decrypt_message fail at once with MalformedInput, no block produced.
MisalignedRejected ==
    (pc \in {"decrypt_loop", "done"} /\ ~Aligned(dm_ciphertext))
        => /\ pc = "done"
           /\ decrypted_bytes.raised = "MalformedInput"
           /\ dm_blocks = <<>>
           /\ decrypted_blocks = <<>>

\* C3 amended: bytes_to_blocks never fails.  For n bytes, n not a multiple
\* of 4, it returns n div 4 + 1 blocks, the last one the big-endian value of
\* the trailing n mod 4 bytes (zero-extended on the left); decrypt_message
\* decrypts every one of them and ends with what unpad_pkcs7 returns or with
\* the ValueError unpad_pkcs7 raises.
MisalignedZeroExtended ==
    (pc \in {"decrypt_loop", "done"} /\ ~Aligned(dm_ciphertext))
        => LET n == Len(dm_ciphertext)
               whole == 4 * (n \div 4)
           IN  /\ Len(dm_blocks) = (n \div 4) + 1
               /\ blocks_to_bytes(dm_blocks)
                    = SubSeq(dm_ciphertext, 1, whole)
                        \o Repeat(0, 4 - (n % 4))
                        \o SubSeq(dm_ciphertext, whole + 1, n)
               /\ pc = "done" =>
                    /\ Len(decrypted_blocks) = Len(dm_blocks)
                    /\ decrypted_bytes.raised \in {"", "ValueError"}

\* C3 witness: under key 0x80200003 and 2 rounds the 2-byte ciphertext
\* 61 67 went through decrypt_message as the block 0x00006167 and three
\* bytes came back
MisalignedZeroExtendedWitness ==
    /\ pc = "done"
    /\ key_32 = W32(32800, 3)
    /\ rounds = 2
    /\ dm_ciphertext = <<97, 103>>
    /\ dm_blocks = <<W32(0, 24935)>>
    /\ Len(decrypted_blocks) = 1
    /\ decrypted_bytes = Returned(<<101, 38, 7>>)

\* C4 as stated: for a buffer with last byte n, unpad_pkcs7 raises the
\* padding error when n < 1, n > block_size or the final n bytes are not all
\* n, and otherwise returns the buffer without exactly its last n bytes.
UnpadValidates ==
    (pc = "unpadded" /\ Len(arg.data) > 0)
        => LET data == arg.data
               n == data[Len(data)]
               final_n_all_n ==
                   /\ Len(data) >= n
                   /\ \A k \in (Len(data) - n + 1)..Len(data) : data[k] = n
           IN  IF n < 1 \/ n > arg.block_size \/ ~final_n_all_n
               THEN ret.unpadded.raised = "ValueError"
               ELSE ret.unpadded = Returned(SubSeq(data, 1, Len(data) - n))

\* C5: padding.  pad_pkcs7(m, 4) appends n bytes of value n, 1 <= n <= 4,
\* n = 4 when len(m) is a multiple of 4; the padded length is a multiple of
\* 4; and unpad_pkcs7 of the padded buffer returns m.
PaddingCorrect ==
    (pc \in {"padded", "pad_unpadded"})
        => LET n == Len(ret.padded) - Len(arg.data)
           IN  /\ n \in 1..4
               /\ Aligned(arg.data) => n = 4
               /\ ret.padded = arg.data \o Repeat(n, n)
               /\ Aligned(ret.padded)
               /\ pc = "pad_unpadded" => ret.unpadded = Returned(arg.data)

\* C5 witness: a 4-byte buffer that itself ends in a valid-looking padding
\* got 4 more bytes and was recovered
PaddingCorrectWitness ==
    /\ pc = "pad_unpadded"
    /\ arg.data = <<1, 2, 2, 2>>
    /\ ret.padded = <<1, 2, 2, 2, 4, 4, 4, 4>>
    /\ ret.unpadded = Returned(arg.data)

\* the ciphertext handed to decrypt_message differs from the one
\* encrypt_message returned in block i and in no other block
CorruptedAt(i) ==
    /\ Len(dm_ciphertext) = Len(ciphertext)
    /\ Aligned(dm_ciphertext)
    /\ i \in 1..Len(dm_blocks)
    /\ dm_blocks[i] # encrypted_blocks[i]
    /\ \A j \in 1..Len(dm_blocks) : j # i => dm_blocks[j] = encrypted_blocks[j]

\* C6: block independence under corruption.  With one bit of ciphertext
\* block i flipped and the blocks decrypted in sequence from LFSR state key,
\* every other block decrypts to its padded-plaintext block.
BlockIndependence ==
    \A i \in 1..Len(dm_blocks) :
        (pc \in {"decrypt_loop", "done"} /\ CorruptedAt(i))
            => \A j \in 1..Len(decrypted_blocks) :
                   j # i => decrypted_blocks[j] = em_blocks[j]

\* C6 witness: block 1 of 2 was corrupted; it decrypted to something else
\* and block 2, decrypted after it, to its plaintext block
BlockIndependenceWitness ==
    /\ pc = "done"
    /\ Len(dm_blocks) = 2
    /\ CorruptedAt(1)
    /\ decrypted_blocks[1] # em_blocks[1]
    /\ decrypted_blocks[2] = em_blocks[2]

\* C7: inverse_p_box(p_box(x)) = x for every 16-bit x.
PBoxInverse ==
    pc = "p_box_inverted" => ret.inv = arg

\* C7 witness: bit 1 moved to position 3 and back
PBoxInverseWitness ==
    /\ pc = "p_box_inverted"
    /\ arg = 2
    /\ ret.p = 8
    /\ ret.inv = 2

RECURSIVE lfsr_advance(_, _)
\* state after n calls of lfsr_step
lfsr_advance(state, n) ==
    IF n = 0 THEN state ELSE lfsr_step(lfsr_advance(state, n - 1)).state

\* C8: LFSR chaining is data-independent.  In encrypt_message and in
\* decrypt_message the state is key before block 0 and, after j blocks, key
\* advanced by j * rounds steps of lfsr_step, whatever the blocks hold; so
\* encrypt_block and decrypt_block leave the same state behind.
LfsrChained ==
    /\ pc \in {"encrypt_loop", "decrypt_message"}
         => lfsr_state = lfsr_advance(key_32, rounds * Len(encrypted_blocks))
    /\ pc \in {"decrypt_loop", "done"}
         => lfsr_state = lfsr_advance(key_32, rounds * Len(decrypted_blocks))

\* C8 witness: two blocks of a corrupted ciphertext were decrypted and the
\* register has moved away from the key
LfsrChainedWitness ==
    /\ pc = "decrypt_loop"
    /\ Len(decrypted_blocks) = 2
    /\ dm_ciphertext # ciphertext
    /\ lfsr_state # key_32
    /\ lfsr_state = lfsr_advance(key_32, rounds * 2)

\* C9: the block round trip needs no permutation and no key-derived table:
\* whatever 16-entry nibble table s_box_nibble holds for both calls (and
\* with inverse_s_box_nibble never set), decrypt_block undoes encrypt_block.
BlockRoundTripAnyTable ==
    pc = "block_decrypted" => ret.dec.block = arg.block

\* C9 witness: a table that is no permutation, a cipher block different from
\* the block, decrypted back
BlockRoundTripAnyTableWitness ==
    /\ pc = "block_decrypted"
    /\ ~IsPermutation(s_box_nibble)
    /\ inverse_s_box_nibble = None
    /\ arg.rounds > 1
    /\ ret.enc.block # arg.block
    /\ ret.dec.block = arg.block

\* C10: the all-zero LFSR state is reachable only from itself.  One
\* lfsr_step yields state 0 exactly when it started from 0; from a seed that
\* is not 0 the register never holds 0; every state is a 32-bit value.
ZeroOnlyFromZero ==
    /\ [](lfsr_state \in Word32)
    /\ [](arg # Zero32 => lfsr_state # Zero32)
    /\ [][(lfsr_state' = Zero32) <=> (lfsr_state = Zero32)]_vars

\* C10 witness: state 1, the one state other than 0 whose right shift is
\* 0, was stepped: the feedback bit is set and the state is 0x80000000
ZeroOnlyFromZeroWitness ==
    /\ pc = "lfsr"
    /\ arg = W32(0, 1)
    /\ ret.n = 1
    /\ lfsr_state = W32(32768, 0)

=============================================================================
